---- MODULE Spec2Model ----
(***************************************************************************)
(* Participant record lifecycle and audit trail of the event registration  *)
(* system: the tables events, participants and data_history of             *)
(* src/database.py and the Database methods that mutate them.              *)
(*                                                                         *)
(* One Database object (one sqlite3 connection) is modelled; every method  *)
(* is one action, from its first statement to its commit / rollback /      *)
(* return / raise.  The tables are the committed ones; what a method that  *)
(* raised has left on the connection's open transaction is kept apart.  sqlite3.connect is called without "PRAGMA foreign_keys = ON",  *)
(* so the FOREIGN KEY clauses of the schema are declarations only: SQLite  *)
(* does not enforce them, and the actions below do not either.             *)
(***************************************************************************)
EXTENDS Integers, Sequences, FiniteSets, TLC

VARIABLES
    events,               \* ids of the rows of table events
    participants,         \* table participants: id -> row
    data_history,         \* table data_history: sequence of rows, in id order
    next_event_id,        \* AUTOINCREMENT counter of events
    next_participant_id,  \* AUTOINCREMENT counter of participants
    next_history_id,      \* AUTOINCREMENT counter of data_history
    now,                  \* CURRENT_TIMESTAMP (one-second resolution)
    uncommitted,          \* data_history rows of the connection's open transaction
    calls,                \* check-ins of concurrent callers, between their statements
    upload,               \* the upload page: the DataFrame and where the page is
    users,                \* table users: username -> row
    session,              \* st.session_state: the keys of auth.init_auth
    last                  \* the last call: method, arguments, returned value

vars == <<events, participants, data_history, next_event_id,
          next_participant_id, next_history_id, now, uncommitted, calls, upload,
          users, session, last>>

----------------------------------------------------------------------------
(* Bounds of the model *)

\* Spec: every operation, on a store with one participant id.
MaxEvents == 2
MaxParticipants == 1
MaxHistory == 3
MaxTime == 2
MaxBatch == 2
\* SpecTwo: the operations that add and remove rows, with two participant ids.
TwoParticipants == 2
TwoHistory == 2
\* SpecUpdate: update_participant over all five fields.
UpdateHistory == 5
\* SpecAtomic: operations that raise, and the calls that follow them.
AtomicHistory == 4
\* SpecDesk: check-ins, with and without a photo, and their undos.
DeskHistory == 7
\* SpecFrame: updates next to check-ins, with two participant ids.
FrameHistory == 3
\* SpecValidate: the rows of an uploaded file.
MaxRows == 2
\* SpecTimeline: the days and the hours of a day the clock goes through.
MaxDay == 1
MaxHour == 1
\* SpecConcurrent: callers that run check_in_participant at the same time.
MaxCallers == 2

----------------------------------------------------------------------------
(* Values *)

\* SQL NULL / Python None in a TEXT or BLOB column.
NULL == "<NULL>"

\* SQL NULL in the TIMESTAMP column check_in_time; clock values start at 1.
NullTime == 0

EventIds == 1..MaxEvents
\* The sessions that call the store at the same time, each with its own
\* Database object and connection.
Callers == 1..MaxCallers
\* The user of the session (st.session_state.user_id).
UserIds == {7}

\* Argument values the callers pass.
Names == {"", "a"}
Optionals == {"", "x"}
Photos == {NULL, "", "jpg"}

\* The dicts of a batch handed to bulk_add_participants (prepare_data_for_db
\* backfills the absent optional columns with None).
BulkRows ==
    [name : {NULL, "a"}, email : {NULL}, phone : {NULL}, college : {NULL},
     group_name : {NULL}, event_id : EventIds]

Batches == UNION {[1..n -> BulkRows] : n \in 1..MaxBatch}

\* Python values of the parameters of update_participant_full that are not text.
PyInt(n) == [ty |-> "int", n |-> n, s |-> ""]
PyBool(b) == [ty |-> "bool", n |-> IF b THEN 1 ELSE 0, s |-> ""]
PyStr(s) == [ty |-> "str", n |-> 0, s |-> s]

\* str(n) of a Python int.
DecStr(n) ==
    CASE n = 0 -> "0" [] n = 1 -> "1" [] n = 2 -> "2" [] n = 3 -> "3"
      [] n = 4 -> "4" [] n = 5 -> "5" [] n = 6 -> "6" [] n = 7 -> "7"
      [] n = 8 -> "8" [] n = 9 -> "9"

\* The integer SQLite's INTEGER affinity makes of a numeric text.
ParseInt(s) == CHOOSE n \in 0..9 : DecStr(n) = s

\* str(v) of a Python value.
Str(v) ==
    CASE v.ty = "int" -> DecStr(v.n)
      [] v.ty = "bool" -> IF v.n = 1 THEN "True" ELSE "False"
      [] v.ty = "str" -> v.s

\* str(v) of a text column value or text argument (None gives "None").
StrText(v) == IF v = NULL THEN "None" ELSE v

\* Python truth value.
Truthy(v) ==
    CASE v.ty = "int" -> v.n # 0
      [] v.ty = "bool" -> v.n = 1
      [] v.ty = "str" -> v.s # ""

\* Truth value of a bytes-or-None argument.
TruthyBytes(b) == b # NULL /\ b # ""

\* The value an INTEGER column stores for a bound Python value.
SqlInteger(v) ==
    CASE v.ty = "int" -> v.n
      [] v.ty = "bool" -> v.n
      [] v.ty = "str" -> ParseInt(v.s)

----------------------------------------------------------------------------
(* Rows *)

\* INSERT INTO participants (name, email, phone, college, group_name, event_id):
\* the other columns take their defaults.
NewParticipant(name, email, phone, college, group_name, event_id) ==
    [name |-> name, email |-> email, phone |-> phone, college |-> college,
     group_name |-> group_name, event_id |-> event_id, registered_at |-> now,
     checked_in |-> 0, check_in_time |-> NullTime, id_card_photo |-> NULL]

\* One row of INSERT INTO data_history, before it gets its id.
HistoryRow(participant_id, field_name, old_value, new_value, modified_by) ==
    [participant_id |-> participant_id, field_name |-> field_name,
     old_value |-> old_value, new_value |-> new_value, modified_by |-> modified_by]

\* The rows as stored, with their ids from the AUTOINCREMENT counter.  The
\* column modified_at (DEFAULT CURRENT_TIMESTAMP) is read by no operation of
\* the model and is left out of the rows.
Stored(rows) ==
    [i \in 1..Len(rows) |->
        [id |-> next_history_id + i - 1, participant_id |-> rows[i].participant_id,
         field_name |-> rows[i].field_name, old_value |-> rows[i].old_value,
         new_value |-> rows[i].new_value,
         modified_by |-> rows[i].modified_by]]

\* The audit rows an operation inserted, as its conn.commit() leaves them:
\* the commit ends the connection's open transaction, with whatever rows an
\* earlier call that raised has left in it.
AppendHistory(rows) ==
    /\ data_history' = data_history \o uncommitted \o Stored(rows)
    /\ next_history_id' = next_history_id + Len(rows)
    /\ uncommitted' = <<>>

\* A return without a write and without a commit.
NoHistory == UNCHANGED <<data_history, next_history_id, uncommitted>>

\* conn.commit() of an operation that inserts no audit row.
Commit ==
    /\ data_history' = data_history \o uncommitted
    /\ uncommitted' = <<>>
    /\ UNCHANGED next_history_id

\* conn.rollback(): the open transaction's audit rows and the ids they took
\* from the AUTOINCREMENT counter are dropped.
Rollback ==
    /\ uncommitted' = <<>>
    /\ next_history_id' = next_history_id - Len(uncommitted)
    /\ UNCHANGED data_history

\* An exception leaves the method between its INSERTs and its commit: the rows
\* stay on the connection's open transaction.
LeaveUncommitted(rows) ==
    /\ uncommitted' = uncommitted \o Stored(rows)
    /\ next_history_id' = next_history_id + Len(rows)
    /\ UNCHANGED data_history

\* The UPDATE of participants raises sqlite3.IntegrityError: name is NOT NULL.
UpdateFails(name) == name = NULL

RowExists(participant_id) == participant_id \in DOMAIN participants

\* A lookup that reports success for a missing row.
NotFoundReturnsTrue == TRUE

\* "if not current_data: return False": what update_participant,
\* update_participant_full and check_in_participant return without a row.
NotFound == FALSE

----------------------------------------------------------------------------
(* Operations *)

\* None of an integer key of st.session_state.
NoId == 0

\* The keys init_auth sets on the first request of a browser session.
NewSession == [authenticated |-> FALSE, user_id |-> NoId, username |-> NULL, role |-> NULL, permissions |-> {}, auth_timestamp |-> NullTime, assigned_event_id |-> NoId, confirm_delete_event |-> NoId]

Init ==
    /\ events = {}
    /\ participants = <<>>
    /\ data_history = <<>>
    /\ next_event_id = 1
    /\ next_participant_id = 1
    /\ next_history_id = 1
    /\ now = 1
    /\ uncommitted = <<>>
    /\ calls = [caller \in Callers |-> [pc |-> "idle"]]
    /\ upload = [stage |-> "none"]
    /\ users = <<>>
    /\ session = NewSession
    /\ last = [op |-> "initialize_database"]

\* The clock advances between calls.
Tick ==
    /\ now < MaxTime
    /\ now' = now + 1
    /\ last' = [op |-> "tick"]
    /\ UNCHANGED <<events, participants, data_history, next_event_id,
                   next_participant_id, next_history_id, uncommitted, calls, upload,
                   users, session>>

\* Database.create_event
create_event ==
    /\ next_event_id <= MaxEvents
    /\ events' = events \cup {next_event_id}
    /\ next_event_id' = next_event_id + 1
    /\ last' = [op |-> "create_event", id |-> next_event_id]
    /\ UNCHANGED <<participants, next_participant_id, now, calls, upload,
                   users, session>>
    /\ Commit

\* Database.add_participant
add_participant(name, email, phone, college, group_name, event_id) ==
    /\ participants' = (next_participant_id :>
            NewParticipant(name, email, phone, college, group_name, event_id))
            @@ participants
    /\ next_participant_id' = next_participant_id + 1
    /\ last' = [op |-> "add_participant", id |-> next_participant_id]
    /\ UNCHANGED <<events, next_event_id, now, calls, upload,
                   users, session>>
    /\ Commit

\* Database.bulk_add_participants: the NOT NULL constraint on name is the one
\* constraint SQLite enforces on an inserted row.
InsertFails(row) == row.name = NULL

\* The loop of bulk_add_participants over participants_data, on the
\* connection's open transaction: stops at the first row whose INSERT raises.
RECURSIVE BulkInsert(_, _, _)
BulkInsert(rows, table, next_id) ==
    IF rows = <<>> THEN [ok |-> TRUE, table |-> table, next_id |-> next_id]
    ELSE IF InsertFails(Head(rows))
         THEN [ok |-> FALSE, table |-> table, next_id |-> next_id]
         ELSE BulkInsert(Tail(rows),
                  (next_id :> NewParticipant(Head(rows).name, Head(rows).email,
                        Head(rows).phone, Head(rows).college,
                        Head(rows).group_name, Head(rows).event_id)) @@ table,
                  next_id + 1)

\* A bulk insert whose except branch keeps the open transaction's writes.
AfterRollbackKeepsWrites(working, committed) == working

\* conn.rollback() in the except branch: the open transaction's writes are
\* dropped and the tables are the committed ones again.
AfterRollback(working, committed) == committed

bulk_add_participants(participants_data) ==
    LET r == BulkInsert(participants_data, participants, next_participant_id) IN
    /\ participants' = IF r.ok THEN r.table
                       ELSE AfterRollback(r.table, participants)
    /\ next_participant_id' = IF r.ok THEN r.next_id
                              ELSE AfterRollback(r.next_id, next_participant_id)
    /\ last' = [op |-> "bulk_add_participants", ok |-> r.ok,
                rows |-> Len(participants_data),
                inserted |-> r.next_id - next_participant_id]
    /\ IF r.ok THEN Commit ELSE Rollback
    /\ UNCHANGED <<events, next_event_id, now, calls, upload,
                   users, session>>

\* The audit rows of update_participant: one per field whose stored value
\* differs (Python !=) from the new one, in the order of fields_to_update.
FieldNames == <<"name", "email", "phone", "college", "group_name">>

\* A diff that logs every field, changed or not.
DiffersAlways(old_value, new_value) == TRUE

Differs(old_value, new_value) == old_value # new_value

RECURSIVE TrackChanges(_, _, _, _, _)
TrackChanges(fields, participant_id, current_data, new_data, user_id) ==
    IF fields = <<>> THEN <<>>
    ELSE LET field == Head(fields)
             rest == TrackChanges(Tail(fields), participant_id, current_data,
                                  new_data, user_id)
         IN IF Differs(current_data[field], new_data[field])
            THEN <<HistoryRow(participant_id, field, current_data[field],
                              new_data[field], user_id)>> \o rest
            ELSE rest

\* An UPDATE that also resets the check-in columns.
UpdatedRowResetsCheckIn(row, name, email, phone, college, group_name) ==
    [row EXCEPT !.name = name, !.email = email, !.phone = phone,
                !.college = college, !.group_name = group_name,
                !.checked_in = 0, !.check_in_time = NullTime]

\* The row update_participant's UPDATE writes: "SET name = ?, email = ?,
\* phone = ?, college = ?, group_name = ?".
UpdatedRow(row, name, email, phone, college, group_name) ==
    [row EXCEPT !.name = name, !.email = email, !.phone = phone,
                !.college = college, !.group_name = group_name]

\* Database.update_participant
update_participant(participant_id, name, email, phone, college, group_name, user_id) ==
    LET new_data == [name |-> name, email |-> email, phone |-> phone,
                     college |-> college, group_name |-> group_name]
        call == [op |-> "update_participant", id |-> participant_id]
    IN
    /\ IF ~RowExists(participant_id)
       THEN /\ last' = call @@ [ok |-> NotFound, raised |-> FALSE]
            /\ UNCHANGED participants
            /\ NoHistory
       ELSE IF UpdateFails(name)
       THEN /\ LeaveUncommitted(TrackChanges(FieldNames, participant_id,
                    participants[participant_id], new_data, user_id))
            /\ UNCHANGED participants
            /\ last' = call @@ [ok |-> FALSE, raised |-> TRUE]
       ELSE /\ AppendHistory(TrackChanges(FieldNames, participant_id,
                    participants[participant_id], new_data, user_id))
            /\ participants' = [participants EXCEPT ![participant_id] =
                    UpdatedRow(@, name, email, phone, college, group_name)]
            /\ last' = call @@ [ok |-> TRUE, raised |-> FALSE]
    /\ UNCHANGED <<events, next_event_id, next_participant_id, now, calls, upload,
                   users, session>>

\* A check-in without the guard on the stored flag.
AlreadyCheckedInUnguarded(row) == FALSE

\* "if not current_status['checked_in']" of check_in_participant, negated.
AlreadyCheckedIn(row) == row.checked_in # 0

\* A check-in that logs the photo itself.
CheckInHistoryWithBytes(participant_id, user_id, id_card_photo) ==
    <<HistoryRow(participant_id, "checked_in", "0", "1", user_id)>> \o
    (IF TruthyBytes(id_card_photo)
     THEN <<HistoryRow(participant_id, "id_card_photo", NULL, id_card_photo,
                       user_id)>>
     ELSE <<>>)

\* The audit rows of a check-in: the status flip and, with a photo, a marker.
CheckInHistory(participant_id, user_id, id_card_photo) ==
    <<HistoryRow(participant_id, "checked_in", "0", "1", user_id)>> \o
    (IF TruthyBytes(id_card_photo)
     THEN <<HistoryRow(participant_id, "id_card_photo", NULL, "Photo captured",
                       user_id)>>
     ELSE <<>>)

\* Database.check_in_participant
check_in_participant(participant_id, user_id, id_card_photo) ==
    LET call == [op |-> "check_in_participant", id |-> participant_id]
    IN
    /\ IF ~RowExists(participant_id) \/ AlreadyCheckedIn(participants[participant_id])
       THEN /\ last' = call @@ [ok |-> IF RowExists(participant_id) THEN FALSE
                                       ELSE NotFound]
            /\ UNCHANGED participants
            /\ NoHistory
       ELSE /\ AppendHistory(CheckInHistory(participant_id, user_id, id_card_photo))
            /\ participants' = [participants EXCEPT ![participant_id] =
                    [@ EXCEPT !.checked_in = 1, !.check_in_time = now,
                              !.id_card_photo = IF TruthyBytes(id_card_photo)
                                                THEN id_card_photo ELSE @]]
            /\ last' = call @@ [ok |-> TRUE]
    /\ UNCHANGED <<events, next_event_id, next_participant_id, now, calls, upload,
                   users, session>>

\* An undo that clears the stamp and the photo and leaves the flag.
UndoneRowKeepsFlag(row) ==
    [row EXCEPT !.check_in_time = NullTime, !.id_card_photo = NULL]

\* An undo that leaves the stored photo.
UndoneRowKeepsPhoto(row) ==
    [row EXCEPT !.checked_in = 0, !.check_in_time = NullTime]

\* The row undo_check_in's UPDATE writes.
UndoneRow(row) ==
    [row EXCEPT !.checked_in = 0, !.check_in_time = NullTime, !.id_card_photo = NULL]

\* Database.undo_check_in: the UPDATE touches the row if there is one; the two
\* INSERTs run in any case; cursor.rowcount is that of the last INSERT.
undo_check_in(participant_id, user_id) ==
    /\ AppendHistory(<<HistoryRow(participant_id, "checked_in", "1", "0", user_id),
                       HistoryRow(participant_id, "id_card_photo", "Photo captured",
                                  "Photo removed", user_id)>>)
    /\ participants' = IF RowExists(participant_id)
                       THEN [participants EXCEPT ![participant_id] = UndoneRow(@)]
                       ELSE participants
    /\ last' = [op |-> "undo_check_in", id |-> participant_id, ok |-> TRUE]
    /\ UNCHANGED <<events, next_event_id, next_participant_id, now, calls, upload,
                   users, session>>

\* A delete that leaves the audit rows.
HistoryWithoutNone(ids) == data_history \o uncommitted

\* DELETE FROM data_history WHERE participant_id = ?
HistoryWithout(ids) ==
    SelectSeq(data_history \o uncommitted, LAMBDA h : h.participant_id \notin ids)

\* Database.delete_participant
delete_participant(participant_id) ==
    /\ data_history' = HistoryWithout({participant_id})
    /\ uncommitted' = <<>>
    /\ participants' = [p \in DOMAIN participants \ {participant_id} |->
                            participants[p]]
    /\ last' = [op |-> "delete_participant", id |-> participant_id,
                ok |-> RowExists(participant_id)]
    /\ UNCHANGED <<events, next_event_id, next_participant_id, next_history_id, now, calls, upload,
                   users, session>>

\* The participants delete_event's first DELETE removes.
ParticipantsOfEvent(event_id) ==
    {p \in DOMAIN participants : participants[p].event_id = event_id}

\* Database.delete_event
delete_event(event_id) ==
    /\ participants' = [p \in DOMAIN participants \ ParticipantsOfEvent(event_id) |->
                            participants[p]]
    /\ events' = events \ {event_id}
    /\ last' = [op |-> "delete_event", id |-> event_id,
                ok |-> event_id \in events]
    /\ UNCHANGED <<next_event_id, next_participant_id, now, calls, upload,
                   users, session>>
    /\ Commit

\* "if str(old_value) != str(new_value)" of update_participant_full.
DiffersAsStr(old_str, new_str) == old_str # new_str

\* One pass of update_participant_full's loop: the audit row for a field, given
\* str(old_value) and str(new_value), or none.
TrackValue(participant_id, field, old_str, new_str, user_id) ==
    IF DiffersAsStr(old_str, new_str)
    THEN <<HistoryRow(participant_id, field, old_str, new_str, user_id)>>
    ELSE <<>>

\* The loop over the five text fields.
RECURSIVE TrackChangesFull(_, _, _, _, _)
TrackChangesFull(fields, participant_id, current_data, new_data, user_id) ==
    IF fields = <<>> THEN <<>>
    ELSE TrackValue(participant_id, Head(fields),
                    StrText(current_data[Head(fields)]),
                    StrText(new_data[Head(fields)]), user_id)
         \o TrackChangesFull(Tail(fields), participant_id, current_data,
                             new_data, user_id)

\* A clause that never clears the timestamp.
CheckInTimeClauseNoClear(stored_checked_in, checked_in, check_in_time) ==
    IF stored_checked_in = 0 /\ checked_in THEN now ELSE check_in_time

\* A clause that follows the argument instead of the transition.
CheckInTimeClauseRestamp(stored_checked_in, checked_in, check_in_time) ==
    IF checked_in THEN now ELSE NullTime

\* check_in_time_clause: the value check_in_time has after the UPDATE, given
\* the stored flag, the truth value of the argument and the stored timestamp.
CheckInTimeClause(stored_checked_in, checked_in, check_in_time) ==
    IF stored_checked_in = 0 /\ checked_in THEN now
    ELSE IF stored_checked_in # 0 /\ ~checked_in THEN NullTime
    ELSE check_in_time

\* Database.update_participant_full
update_participant_full(participant_id, name, email, phone, college, group_name, event_id, checked_in, user_id) ==
    LET call == [op |-> "update_participant_full", id |-> participant_id] IN
    /\ IF ~RowExists(participant_id)
       THEN /\ last' = call @@ [ok |-> NotFound, raised |-> FALSE]
            /\ UNCHANGED participants
            /\ NoHistory
       ELSE LET current_data == participants[participant_id]
                new_data == [name |-> name, email |-> email, phone |-> phone,
                             college |-> college, group_name |-> group_name]
                rows == TrackChangesFull(FieldNames, participant_id, current_data,
                                         new_data, user_id)
                        \o TrackValue(participant_id, "event_id",
                                      DecStr(current_data.event_id), Str(event_id),
                                      user_id)
                        \o TrackValue(participant_id, "checked_in",
                                      DecStr(current_data.checked_in),
                                      Str(checked_in), user_id)
            IN
            IF UpdateFails(name)
            THEN /\ LeaveUncommitted(rows)
                 /\ UNCHANGED participants
                 /\ last' = call @@ [ok |-> FALSE, raised |-> TRUE]
            ELSE
            /\ AppendHistory(rows)
            /\ participants' = [participants EXCEPT ![participant_id] =
                    [@ EXCEPT !.name = name, !.email = email, !.phone = phone,
                              !.college = college, !.group_name = group_name,
                              !.event_id = SqlInteger(event_id),
                              !.checked_in = SqlInteger(checked_in),
                              !.check_in_time = CheckInTimeClause(
                                    current_data.checked_in, Truthy(checked_in), @)]]
            /\ last' = call @@ [ok |-> TRUE, raised |-> FALSE]
    /\ UNCHANGED <<events, next_event_id, next_participant_id, now, calls, upload,
                   users, session>>

\* The model's caps on the ids the AUTOINCREMENT counters ever hand out.
ParticipantRoom(max) == next_participant_id' <= max + 1
HistoryRoom(max) == next_history_id' <= max + 1

\* Python values a caller passes for event_id and checked_in.
EventIdArgs == {PyInt(e) : e \in EventIds} \cup {PyStr(DecStr(e)) : e \in EventIds}
CheckedInArgs == {PyBool(TRUE), PyBool(FALSE), PyInt(1), PyInt(0)}

Next ==
    \/ Tick
    \/ create_event
    \/ \E name \in Names, event_id \in EventIds :
          /\ add_participant(name, "", "", "", "", event_id)
          /\ ParticipantRoom(MaxParticipants)
    \/ \E batch \in Batches :
          /\ bulk_add_participants(batch)
          /\ ParticipantRoom(MaxParticipants)
    \/ \E participant_id \in 1..MaxParticipants, name \in Names,
          user_id \in UserIds :
          /\ update_participant(participant_id, name, "", "", "", "", user_id)
          /\ HistoryRoom(MaxHistory)
    \/ \E participant_id \in 1..MaxParticipants,
          event_id \in EventIdArgs, checked_in \in CheckedInArgs,
          user_id \in UserIds :
          /\ update_participant_full(participant_id, "a", "", "", "", "",
                                     event_id, checked_in, user_id)
          /\ HistoryRoom(MaxHistory)
    \/ \E participant_id \in 1..MaxParticipants, user_id \in UserIds,
          id_card_photo \in Photos :
          /\ check_in_participant(participant_id, user_id, id_card_photo)
          /\ HistoryRoom(MaxHistory)
    \/ \E participant_id \in 1..MaxParticipants, user_id \in UserIds :
          /\ undo_check_in(participant_id, user_id)
          /\ HistoryRoom(MaxHistory)
    \/ \E participant_id \in 1..MaxParticipants : delete_participant(participant_id)
    \/ \E event_id \in EventIds : delete_event(event_id)

Spec == Init /\ [][Next]_vars

\* Two participant ids: the operations that insert and delete rows.
NextTwo ==
    \/ create_event
    \/ \E event_id \in EventIds :
          /\ add_participant("a", "", "", "", "", event_id)
          /\ ParticipantRoom(TwoParticipants)
    \/ \E batch \in Batches :
          /\ bulk_add_participants(batch)
          /\ ParticipantRoom(TwoParticipants)
    \/ \E participant_id \in 1..TwoParticipants, user_id \in UserIds,
          id_card_photo \in {NULL, "jpg"} :
          /\ check_in_participant(participant_id, user_id, id_card_photo)
          /\ HistoryRoom(TwoHistory)
    \/ \E participant_id \in 1..TwoParticipants, user_id \in UserIds :
          /\ undo_check_in(participant_id, user_id)
          /\ HistoryRoom(TwoHistory)
    \/ \E participant_id \in 1..TwoParticipants : delete_participant(participant_id)
    \/ \E event_id \in EventIds : delete_event(event_id)

SpecTwo == Init /\ [][NextTwo]_vars

\* Field edits: update_participant with every combination of the five fields.
NextUpdate ==
    \/ \E name \in Names :
          /\ add_participant(name, "", "", "", "", 1)
          /\ ParticipantRoom(MaxParticipants)
    \/ \E batch \in {b \in Batches : Len(b) = 1 /\ b[1].event_id = 1} :
          /\ bulk_add_participants(batch)
          /\ ParticipantRoom(MaxParticipants)
    \/ \E participant_id \in 1..MaxParticipants, name \in Names,
          email, phone, college, group_name \in Optionals, user_id \in UserIds :
          /\ update_participant(participant_id, name, email, phone, college,
                                group_name, user_id)
          /\ HistoryRoom(UpdateHistory)

SpecUpdate == Init /\ [][NextUpdate]_vars

\* Updates of one participant next to another, checked in or not, with or
\* without a photo.
NextFrame ==
    \/ Tick
    \/ create_event
    \/ \E event_id \in EventIds :
          /\ add_participant("a", "", "", "", "", event_id)
          /\ ParticipantRoom(TwoParticipants)
    \/ \E participant_id \in 1..TwoParticipants, user_id \in UserIds,
          id_card_photo \in Photos :
          /\ check_in_participant(participant_id, user_id, id_card_photo)
          /\ HistoryRoom(FrameHistory)
    \/ \E participant_id \in 1..TwoParticipants, name \in Names,
          email \in Optionals, user_id \in UserIds :
          /\ update_participant(participant_id, name, email, "", "", "", user_id)
          /\ HistoryRoom(FrameHistory)

SpecFrame == Init /\ [][NextFrame]_vars

\* cursor.fetchone() of "SELECT checked_in FROM participants WHERE id = ?":
\* None without a row.
NoRow == -1

SelectCheckedIn(participant_id) ==
    IF RowExists(participant_id) THEN participants[participant_id].checked_in
    ELSE NoRow

\* Database.check_in_participant of one of several callers, up to and with its
\* SELECT.  The SELECT runs outside a transaction and holds no lock once the
\* row is fetched, so other connections' statements may follow it.
check_in_select(caller, participant_id, user_id, id_card_photo) ==
    /\ calls[caller].pc = "idle"
    /\ calls' = [calls EXCEPT ![caller] =
            [pc |-> "selected", participant_id |-> participant_id,
             user_id |-> user_id, id_card_photo |-> id_card_photo,
             current_status |-> SelectCheckedIn(participant_id)]]
    /\ last' = [op |-> "check_in_select", id |-> participant_id]
    /\ UNCHANGED <<events, participants, next_event_id, next_participant_id, now,
                   upload,
                   users, session>>
    /\ NoHistory

\* The rest of that call: the tests on current_status, then the UPDATE, the
\* INSERTs and the commit, which SQLite's write lock makes one transaction
\* that no other connection's write interleaves with.  The UPDATE is
\* "WHERE id = ?" alone and does not look at checked_in again.
check_in_finish(caller) ==
    LET call == calls[caller]
        done == [pc |-> "returned", participant_id |-> call.participant_id,
                 current_status |-> call.current_status]
    IN
    /\ call.pc = "selected"
    /\ IF call.current_status = NoRow \/ call.current_status # 0
       THEN /\ calls' = [calls EXCEPT ![caller] = done @@ [ok |-> FALSE]]
            /\ last' = [op |-> "check_in_finish", id |-> call.participant_id,
                        ok |-> FALSE]
            /\ UNCHANGED participants
            /\ NoHistory
       ELSE /\ AppendHistory(CheckInHistory(call.participant_id, call.user_id,
                                            call.id_card_photo))
            /\ participants' =
                  IF RowExists(call.participant_id)
                  THEN [participants EXCEPT ![call.participant_id] =
                          [@ EXCEPT !.checked_in = 1, !.check_in_time = now,
                                    !.id_card_photo =
                                        IF TruthyBytes(call.id_card_photo)
                                        THEN call.id_card_photo ELSE @]]
                  ELSE participants
            /\ calls' = [calls EXCEPT ![caller] = done @@ [ok |-> TRUE]]
            /\ last' = [op |-> "check_in_finish", id |-> call.participant_id,
                        ok |-> TRUE]
    /\ UNCHANGED <<events, next_event_id, next_participant_id, now, upload,
                   users, session>>

\* Concurrent check-ins: each caller calls check_in_participant once.
NextConcurrent ==
    \/ Tick
    \/ \E name \in Names, event_id \in EventIds :
          /\ add_participant(name, "", "", "", "", event_id)
          /\ ParticipantRoom(MaxParticipants)
    \/ \E caller \in Callers, participant_id \in 1..MaxParticipants,
          user_id \in UserIds, id_card_photo \in {NULL, "jpg"} :
          check_in_select(caller, participant_id, user_id, id_card_photo)
    \/ \E caller \in Callers : check_in_finish(caller)

SpecConcurrent == Init /\ [][NextConcurrent]_vars

\* The check-in desk: check-ins with and without a photo, undos and deletes of
\* one participant, over a log long enough for a check-in, its undo and a
\* second check-in.
NextDesk ==
    \/ Tick
    \/ /\ add_participant("a", "", "", "", "", 1)
       /\ ParticipantRoom(MaxParticipants)
    \/ \E participant_id \in 1..MaxParticipants, user_id \in UserIds,
          id_card_photo \in Photos :
          /\ check_in_participant(participant_id, user_id, id_card_photo)
          /\ HistoryRoom(DeskHistory)
    \/ \E participant_id \in 1..MaxParticipants, user_id \in UserIds :
          /\ undo_check_in(participant_id, user_id)
          /\ HistoryRoom(DeskHistory)
    \/ \E participant_id \in 1..MaxParticipants : delete_participant(participant_id)

SpecDesk == Init /\ [][NextDesk]_vars

\* Names a caller passes when it may pass None.
NamesOrNone == {NULL, "a"}

\* Calls that raise between their INSERTs and their commit, and the calls that
\* follow them on the same connection.
NextAtomic ==
    \/ /\ add_participant("a", "", "", "", "", 1)
       /\ ParticipantRoom(MaxParticipants)
    \/ \E batch \in {b \in Batches : Len(b) = 1 /\ b[1].event_id = 1} :
          /\ bulk_add_participants(batch)
          /\ ParticipantRoom(MaxParticipants)
    \/ \E participant_id \in 1..MaxParticipants, name \in NamesOrNone,
          email \in Optionals, user_id \in UserIds :
          /\ update_participant(participant_id, name, email, "", "", "", user_id)
          /\ HistoryRoom(AtomicHistory)
    \/ \E participant_id \in 1..MaxParticipants, name \in NamesOrNone,
          checked_in \in {PyInt(0), PyInt(1)}, user_id \in UserIds :
          /\ update_participant_full(participant_id, name, "", "", "", "",
                                     PyInt(1), checked_in, user_id)
          /\ HistoryRoom(AtomicHistory)
    \/ \E participant_id \in 1..MaxParticipants, user_id \in UserIds :
          /\ check_in_participant(participant_id, user_id, NULL)
          /\ HistoryRoom(AtomicHistory)
    \/ \E participant_id \in 1..MaxParticipants, user_id \in UserIds :
          /\ undo_check_in(participant_id, user_id)
          /\ HistoryRoom(AtomicHistory)
    \/ \E participant_id \in 1..MaxParticipants : delete_participant(participant_id)

SpecAtomic == Init /\ [][NextAtomic]_vars

----------------------------------------------------------------------------
(* Import of an uploaded file *)

\* A missing cell of a numeric DataFrame column (float nan).
PyNaN == [ty |-> "nan", n |-> 0, s |-> ""]

\* pd.isna of a cell of the 'Event ID' column.
IsNa(v) == v.ty = "nan"

\* Cells of an uploaded file.  A missing text cell is NULL.
NameCells == {NULL, " ", "a"}
EventIdCells ==
    {PyNaN} \cup {PyInt(e) : e \in 1..(MaxEvents + 1)} \cup {PyStr("abc")}
EmailCells == {NULL, "bad", "a@b.c"}
PhoneCells == {NULL, "12345", "9876543210"}

\* The column sets of the uploaded files.
ColumnSets ==
    {{"Name", "Event ID", "Email", "Phone"}, {"Name", "Event ID"}, {"Name", "Email"}}

\* s.strip()
Strip(s) == IF s = " " THEN "" ELSE s

\* '@' in s, '.' in s, s.isdigit() and len(s), for the cells above.
HasAt(s) == s \in {"a@b.c"}
HasDot(s) == s \in {"a@b.c"}
IsDigit(s) == s \in {"12345", "9876543210"}
StrLen(s) ==
    CASE s = "" -> 0 [] s = " " -> 1 [] s = "a" -> 1 [] s = "bad" -> 3
      [] s = "abc" -> 3 [] s = "a@b.c" -> 5 [] s = "12345" -> 5
      [] s = "9876543210" -> 10

\* int(v) raises ValueError for a text that is not a number.
IntRaises(v) == v.ty = "str" /\ \A n \in 0..9 : DecStr(n) # v.s

\* int(v) otherwise.
IntOf(v) == IF v.ty = "str" THEN ParseInt(v.s) ELSE v.n

\* valid_event_ids = [str(event['id']) for event in events]
ValidEventIds(known) == {DecStr(e) : e \in known}

\* One entry of the lists errors and warnings: the row number of the message
\* (idx + 2; 0 for a message about a column) and what it is about.
Message(row, field, kind) == [row |-> row, field |-> field, kind |-> kind]

\* The body of the loop "for idx, row in df.iterrows()" for one row.
ValidateRow(idx, row, columns, known) ==
    LET name_missing == row.Name = NULL \/ Strip(row.Name) = ""
        event_missing ==
            IsNa(row.EventID) \/ Strip(Str(row.EventID)) = ""
        raised == ~event_missing /\ IntRaises(row.EventID)
        event_invalid ==
            /\ ~event_missing
            /\ ~raised
            /\ DecStr(IntOf(row.EventID)) \notin ValidEventIds(known)
        email_checked ==
            "Email" \in columns /\ row.Email # NULL /\ Strip(row.Email) # ""
        phone_checked ==
            "Phone" \in columns /\ row.Phone # NULL /\ Strip(row.Phone) # ""
    IN [raised |-> raised,
        errors |->
            (IF name_missing THEN <<Message(idx + 2, "Name", "missing")>> ELSE <<>>)
            \o (IF event_missing THEN <<Message(idx + 2, "Event ID", "missing")>>
                ELSE IF event_invalid
                THEN <<Message(idx + 2, "Event ID", "invalid")>>
                ELSE <<>>),
        warnings |->
            (IF email_checked /\ (~HasAt(row.Email) \/ ~HasDot(row.Email))
             THEN <<Message(idx + 2, "Email", "format")>> ELSE <<>>)
            \o (IF phone_checked /\ (~IsDigit(Strip(row.Phone))
                                     \/ StrLen(Strip(row.Phone)) < 10)
                THEN <<Message(idx + 2, "Phone", "format")>> ELSE <<>>)]

\* The loop over the rows, from row idx on: it ends where int() raises.
RECURSIVE ValidateRows(_, _, _, _)
ValidateRows(rows, idx, columns, known) ==
    IF idx >= Len(rows) THEN [raised |-> FALSE, errors |-> <<>>, warnings |-> <<>>]
    ELSE LET r == ValidateRow(idx, rows[idx + 1], columns, known)
         IN IF r.raised THEN r
            ELSE LET rest == ValidateRows(rows, idx + 1, columns, known)
                 IN [raised |-> rest.raised, errors |-> r.errors \o rest.errors,
                     warnings |-> r.warnings \o rest.warnings]

\* The errors for the required columns the file lacks.
ColumnErrors(columns) ==
    (IF "Name" \in columns THEN <<>> ELSE <<Message(0, "Name", "column")>>)
    \o (IF "Event ID" \in columns THEN <<>>
        ELSE <<Message(0, "Event ID", "column")>>)

\* "return len(errors) == 0, errors, warnings"
IsValid(errors) == Len(errors) = 0

\* utils.validate_uploaded_data: (is_valid, errors, warnings), or an exception.
validate_uploaded_data(df, known) ==
    IF ColumnErrors(df.columns) # <<>>
    THEN [raised |-> FALSE, is_valid |-> FALSE,
          errors |-> ColumnErrors(df.columns), warnings |-> <<>>]
    ELSE LET r == ValidateRows(df.rows, 0, df.columns, known)
         IN IF r.raised
            THEN [raised |-> TRUE, is_valid |-> FALSE, errors |-> <<>>,
                  warnings |-> <<>>]
            ELSE [raised |-> FALSE, is_valid |-> IsValid(r.errors),
                  errors |-> r.errors, warnings |-> r.warnings]

\* The files a user uploads: a DataFrame of pd.read_csv / pd.read_excel.
UploadedRows ==
    [Name : NameCells, EventID : EventIdCells, Email : EmailCells,
     Phone : PhoneCells]

UploadedFiles ==
    [columns : ColumnSets,
     rows : UNION {[1..n -> UploadedRows] : n \in 1..MaxRows}]

\* render_upload_section up to its preview: without events the page stops
\* before the uploader; the file is read and validated against
\* db.get_all_events(); an invalid file ends the run of the page, and so does
\* an exception (the outer except).
upload_file(df) ==
    LET result == validate_uploaded_data(df, events) IN
    /\ upload.stage = "none"
    /\ events # {}
    /\ upload' = [stage |-> IF result.raised THEN "raised"
                            ELSE IF result.is_valid THEN "preview"
                            ELSE "rejected",
                  file |-> df, df |-> df, known |-> events, result |-> result]
    /\ last' = [op |-> "upload_file"]
    /\ UNCHANGED <<events, participants, next_event_id, next_participant_id, now,
                   calls,
                   users, session>>
    /\ NoHistory

\* The user takes the file away or leaves the page.
leave_upload ==
    /\ upload.stage # "none"
    /\ upload' = [stage |-> "none"]
    /\ last' = [op |-> "leave_upload"]
    /\ UNCHANGED <<events, participants, next_event_id, next_participant_id, now,
                   calls,
                   users, session>>
    /\ NoHistory

\* df_copy['event_id'].astype(int) raises for a missing cell and for a text
\* that is not a number.
PrepareRaises(df) ==
    \E i \in DOMAIN df.rows :
        IsNa(df.rows[i].EventID) \/ IntRaises(df.rows[i].EventID)

\* utils.prepare_data_for_db: the records handed to bulk_add_participants.  The
\* columns the file lacks are filled with None; a missing cell is bound as
\* SQL NULL.
prepare_data_for_db(df) ==
    [i \in DOMAIN df.rows |->
        [name |-> df.rows[i].Name,
         email |-> IF "Email" \in df.columns THEN df.rows[i].Email ELSE NULL,
         phone |-> IF "Phone" \in df.columns THEN df.rows[i].Phone ELSE NULL,
         college |-> NULL, group_name |-> NULL,
         event_id |-> IntOf(df.rows[i].EventID)]]

\* The files of the import flow: the two required columns.
ImportRows ==
    [Name : NameCells, EventID : EventIdCells, Email : {NULL}, Phone : {NULL}]

ImportFiles ==
    [columns : {{"Name", "Event ID"}},
     rows : UNION {[1..n -> ImportRows] : n \in 1..MaxBatch}]

\* The cells st.data_editor lets the user leave in the preview: any name, a
\* number or nothing as event id.
EditedRows ==
    [Name : NameCells,
     EventID : {PyNaN} \cup {PyInt(e) : e \in 1..(MaxEvents + 1)},
     Email : {NULL}, Phone : {NULL}]

\* "edited_df = st.data_editor(df); df = edited_df": the user edits cells of
\* the preview; the page validates the file as uploaded, not the edited rows.
edit_data(rows) ==
    /\ upload.stage = "preview"
    /\ Len(rows) = Len(upload.df.rows)
    /\ rows # upload.df.rows
    /\ upload' = [upload EXCEPT !.df.rows = rows]
    /\ last' = [op |-> "edit_data"]
    /\ UNCHANGED <<events, participants, next_event_id, next_participant_id, now,
                   calls,
                   users, session>>
    /\ NoHistory

\* The "Confirm Upload" button.  The click reruns the page from its top: the
\* events are read again and the file as uploaded is validated again, and the
\* page stops there unless it passes.  Then the rows of the data editor go
\* through prepare_data_for_db into bulk_add_participants; an exception of
\* either is shown and the page stays.
confirm_upload ==
    LET result == validate_uploaded_data(upload.file, events) IN
    /\ upload.stage = "preview"
    /\ IF events = {} \/ result.raised \/ ~result.is_valid
       THEN /\ upload' = [upload EXCEPT !.stage = "rejected", !.known = events,
                                        !.result = result]
            /\ last' = [op |-> "confirm_upload", ok |-> FALSE]
            /\ UNCHANGED <<events, participants, next_event_id,
                           next_participant_id, now, calls,
                   users, session>>
            /\ NoHistory
       ELSE IF PrepareRaises(upload.df)
       THEN /\ last' = [op |-> "confirm_upload", ok |-> FALSE]
            /\ UNCHANGED <<events, participants, next_event_id,
                           next_participant_id, now, calls, upload,
                   users, session>>
            /\ NoHistory
       ELSE bulk_add_participants(prepare_data_for_db(upload.df))

\* The import flow: upload and validation, edits of the preview, confirmation.
NextImport ==
    \/ create_event
    \/ /\ upload.stage = "none"
       /\ \E df \in ImportFiles : upload_file(df)
    \/ /\ upload.stage = "preview"
       /\ \E rows \in UNION {[1..n -> EditedRows] : n \in 1..MaxBatch} :
             edit_data(rows)
    \/ /\ confirm_upload
       /\ ParticipantRoom(TwoParticipants)
    \/ leave_upload

SpecImport == Init /\ [][NextImport]_vars

\* Validation of uploaded files against the events of the store.
NextValidate ==
    \/ create_event
    \/ /\ upload.stage = "none"
       /\ \E df \in UploadedFiles : upload_file(df)
    \/ leave_upload

SpecValidate == Init /\ [][NextValidate]_vars

----------------------------------------------------------------------------
(* Dashboard *)

\* SQL NULL / Python None where a number is expected.
SqlNullInt == -1

\* event_id = None: the view "All Events".
AllEvents == 0

\* The rows "FROM participants [WHERE event_id = ?]" selects: "if event_id"
\* takes the filtered query.
Scope(event_id) ==
    IF event_id # AllEvents
    THEN {p \in DOMAIN participants : participants[p].event_id = event_id}
    ELSE DOMAIN participants

\* SUM(checked_in) over a non-empty set of rows.
RECURSIVE SumCheckedIn(_)
SumCheckedIn(rows) ==
    IF rows = {} THEN 0
    ELSE LET p == CHOOSE q \in rows : TRUE
         IN participants[p].checked_in + SumCheckedIn(rows \ {p})

\* Database.get_participant_stats: SUM over no rows is NULL.
get_participant_stats(event_id) ==
    LET rows == Scope(event_id) IN
    [total |-> Cardinality(rows),
     checked_in |-> IF rows = {} THEN SqlNullInt ELSE SumCheckedIn(rows),
     not_checked_in |-> IF rows = {} THEN SqlNullInt
                        ELSE Cardinality(rows) - SumCheckedIn(rows)]

\* round(x * 100, 1) of x = checked_in / total, in tenths of a percent.
RoundedPercent(checked_in, total) ==
    (2 * 1000 * checked_in + total) \div (2 * total)

\* check_in_percent of render_overview_section, in tenths of a percent.
CheckInPercent(stats) ==
    IF stats.total > 0 THEN RoundedPercent(stats.checked_in, stats.total) ELSE 0

\* dashboard.render_overview_section, for a view render_dashboard offers: an
\* existing event or all events, once there is an event.
render_overview_section(event_id) ==
    LET stats == get_participant_stats(event_id) IN
    /\ events # {}
    /\ event_id \in events \cup {AllEvents}
    /\ last' = [op |-> "render_overview_section", id |-> event_id,
                stats |-> stats, check_in_percent |-> CheckInPercent(stats)]
    /\ UNCHANGED <<events, participants, next_event_id, next_participant_id, now,
                   calls, upload,
                   users, session>>
    /\ NoHistory

\* Database.get_event_stats: one row per event of "events e LEFT JOIN
\* participants p ... GROUP BY e.id"; COUNT(p.id) counts the joined rows and
\* SUM(p.checked_in) is NULL for an event that none joins.
get_event_stats ==
    {[id |-> e,
      total_participants |-> Cardinality(ParticipantsOfEvent(e)),
      checked_in |-> IF ParticipantsOfEvent(e) = {} THEN SqlNullInt
                     ELSE SumCheckedIn(ParticipantsOfEvent(e))] : e \in events}

\* dashboard.render_attendance_section for the view "All Events": the rows of
\* get_event_stats and, of them, the ones it puts into the chart.
render_attendance_section ==
    /\ events # {}
    /\ last' = [op |-> "render_attendance_section", stats |-> get_event_stats,
                data |-> {e \in get_event_stats : e.total_participants > 0}]
    /\ UNCHANGED <<events, participants, next_event_id, next_participant_id, now,
                   calls, upload,
                   users, session>>
    /\ NoHistory

\* The dashboard over a store with two participant ids.
NextStats ==
    \/ create_event
    \/ \E event_id \in EventIds :
          /\ add_participant("a", "", "", "", "", event_id)
          /\ ParticipantRoom(TwoParticipants)
    \/ \E participant_id \in 1..TwoParticipants, user_id \in UserIds :
          /\ check_in_participant(participant_id, user_id, NULL)
          /\ HistoryRoom(TwoHistory)
    \/ \E participant_id \in 1..TwoParticipants : delete_participant(participant_id)
    \/ \E event_id \in EventIds \cup {AllEvents} : render_overview_section(event_id)
    \/ render_attendance_section

SpecStats == Init /\ [][NextStats]_vars

\* The clock of the timeline: seconds, as the timestamps of the store.
SecondsPerHour == 3600
HoursPerDay == 24

\* date(t) and strftime('%H', t) of a timestamp, as day number and hour.
DateOf(t) == t \div (HoursPerDay * SecondsPerHour)
HourOf(t) == (t \div SecondsPerHour) % HoursPerDay

\* An hour passes, or a day.
AdvanceClock(seconds) ==
    /\ now' = now + seconds
    /\ DateOf(now') <= MaxDay
    /\ HourOf(now') <= MaxHour
    /\ last' = [op |-> "tick"]
    /\ UNCHANGED <<events, participants, data_history, next_event_id,
                   next_participant_id, next_history_id, uncommitted, calls,
                   upload,
                   users, session>>

\* The rows get_check_in_timeline counts for an hour of a date: in scope,
\* checked_in = 1, check_in_time on that date (date(NULL) is NULL and matches
\* no date) and in that hour.
CheckedInAt(event_id, date, hour) ==
    {p \in Scope(event_id) :
        /\ participants[p].checked_in = 1
        /\ participants[p].check_in_time # NullTime
        /\ DateOf(participants[p].check_in_time) = date
        /\ HourOf(participants[p].check_in_time) = hour}

\* Database.get_check_in_timeline: one row per hour that has a check-in
\* ("GROUP BY hour"), none for the other hours.
get_check_in_timeline(event_id, date) ==
    {[hour |-> h, count |-> Cardinality(CheckedInAt(event_id, date, h))] :
        h \in {g \in 0..(HoursPerDay - 1) : CheckedInAt(event_id, date, g) # {}}}

\* hour_data.get(hour_str, 0)
HourCount(timeline_data, hour) ==
    IF \E r \in timeline_data : r.hour = hour
    THEN (CHOOSE r \in timeline_data : r.hour = hour).count
    ELSE 0

\* dashboard.render_check_in_timeline, for today: without a row the section
\* shows a message and no chart; otherwise it fills the 24 hours.
render_check_in_timeline(event_id) ==
    LET selected_date == DateOf(now)
        timeline_data == get_check_in_timeline(event_id, selected_date)
    IN
    /\ events # {}
    /\ event_id \in events \cup {AllEvents}
    /\ last' = [op |-> "render_check_in_timeline", id |-> event_id,
                date |-> selected_date,
                data |-> IF timeline_data = {} THEN <<>>
                         ELSE [i \in 1..HoursPerDay |->
                                 [hour |-> i - 1,
                                  count |-> HourCount(timeline_data, i - 1)]]]
    /\ UNCHANGED <<events, participants, next_event_id, next_participant_id, now,
                   calls, upload,
                   users, session>>
    /\ NoHistory

\* The timeline over two days.
NextTimeline ==
    \/ create_event
    \/ \E seconds \in {SecondsPerHour, HoursPerDay * SecondsPerHour} :
          AdvanceClock(seconds)
    \/ \E event_id \in EventIds :
          /\ add_participant("a", "", "", "", "", event_id)
          /\ ParticipantRoom(TwoParticipants)
    \/ \E participant_id \in 1..TwoParticipants, user_id \in UserIds :
          /\ check_in_participant(participant_id, user_id, NULL)
          /\ HistoryRoom(TwoHistory)
    \/ \E participant_id \in 1..TwoParticipants : delete_participant(participant_id)
    \/ \E event_id \in EventIds \cup {AllEvents} : render_check_in_timeline(event_id)

SpecTimeline == Init /\ [][NextTimeline]_vars

----------------------------------------------------------------------------
(* Sessions: auth.py, the navigation of streamlit_app.py and the pages *)

\* config.SESSION_EXPIRY, in minutes.
SESSION_EXPIRY == 30
SecondsPerMinute == 60

\* config.ROLES[role]['permissions']
Permissions(role) ==
    CASE role = "admin" -> {"manage_users", "manage_events", "view_dashboard",
                            "upload_data", "manage_registration"}
      [] role = "data_manager" -> {"upload_data", "view_dashboard"}
      [] role = "registration" -> {"manage_registration", "view_dashboard"}
      [] role = "viewer" -> {"view_dashboard"}

\* The accounts the user management page is asked to create.
NewUsers == {[username |-> "dm", role |-> "data_manager"], [username |-> "viewer", role |-> "viewer"]}
Usernames == {"admin"} \cup {u.username : u \in NewUsers}

\* auth.logout: it clears the keys of init_auth and no other key.
logout(s) ==
    [s EXCEPT !.authenticated = FALSE, !.user_id = NoId, !.username = NULL,
              !.role = NULL, !.permissions = {}, !.auth_timestamp = NullTime,
              !.assigned_event_id = NoId]

\* timedelta.seconds of t - since: the seconds within the last day of the
\* difference; the whole days are in timedelta.days.
TimedeltaSeconds(t, since) == (t - since) % (HoursPerDay * SecondsPerHour)

\* The idle time auth.init_auth should measure: the whole difference.
TotalSeconds(t, since) == t - since

\* init_auth: "idle_time = (now - auth_timestamp).seconds / 60" and
\* "idle_time > config.SESSION_EXPIRY".
IdleTooLong(s) ==
    /\ s.authenticated
    /\ s.auth_timestamp # NullTime
    /\ TimedeltaSeconds(now, s.auth_timestamp) > SESSION_EXPIRY * SecondsPerMinute

\* auth.init_auth on a request: an expired session is logged out and the
\* script runs again, logged out; a live one gets a new auth_timestamp.
init_auth(s) ==
    IF IdleTooLong(s) THEN logout(s)
    ELSE IF s.authenticated THEN [s EXCEPT !.auth_timestamp = now]
    ELSE s

\* auth.create_initial_admin, which main() runs on every request.
create_initial_admin(us) ==
    IF DOMAIN us = {}
    THEN [u \in {"admin"} |-> [id |-> 1, role |-> "admin", assigned_event_id |-> NoId]]
    ELSE us

\* auth.is_viewer
is_viewer(s) == ~s.authenticated \/ s.role = "viewer"

\* The pages main() offers: the dashboard alone to a viewer, otherwise the
\* entries of the navigation that the permissions add.
nav_options(s) ==
    IF is_viewer(s) THEN {"Dashboard"}
    ELSE {page \in {"Dashboard", "Registration", "Data Management", "User Management"} :
            \/ page = "Dashboard" /\ "view_dashboard" \in s.permissions
            \/ page = "Registration" /\ "manage_registration" \in s.permissions
            \/ page = "Data Management" /\ "upload_data" \in s.permissions
            \/ page = "User Management" /\ "manage_users" \in s.permissions}

\* auth.requires_auth(permission), after its init_auth: the page runs for an
\* authenticated session that holds the permission.
requires_auth(s, permission) == s.authenticated /\ permission \in s.permissions

\* What a request leaves alone in the store.
StoreUnchanged == UNCHANGED <<events, participants, data_history, next_event_id, next_participant_id, next_history_id, now, uncommitted, calls, upload>>

\* A request that ends at the login form: the session was never logged in, or
\* init_auth has just logged it out.
display_login_form(op) ==
    /\ session' = init_auth(session)
    /\ users' = create_initial_admin(users)
    /\ last' = [op |-> op, view |-> "login", id |-> NoId, expired |-> IdleTooLong(session)]
    /\ StoreUnchanged

\* auth.login through the form, with the password of the account: the keys
\* of the session come from the row of table users.
login(username) ==
    LET s == init_auth(session) IN
    /\ ~s.authenticated
    /\ users' = create_initial_admin(users)
    /\ IF username \in DOMAIN users
       THEN /\ session' = [s EXCEPT !.authenticated = TRUE,
                                    !.user_id = users[username].id,
                                    !.username = username,
                                    !.role = users[username].role,
                                    !.permissions = Permissions(users[username].role),
                                    !.auth_timestamp = now,
                                    !.assigned_event_id = users[username].assigned_event_id]
            /\ last' = [op |-> "login", view |-> "page", id |-> users[username].id, expired |-> IdleTooLong(session)]
       ELSE /\ session' = s
            /\ last' = [op |-> "login", view |-> "login", id |-> NoId, expired |-> IdleTooLong(session)]
    /\ StoreUnchanged

\* auth.display_logout_button, clicked.
click_logout ==
    LET s == init_auth(session) IN
    /\ session.authenticated
    /\ session' = logout(s)
    /\ users' = create_initial_admin(users)
    /\ last' = [op |-> "logout", view |-> "login", id |-> NoId, expired |-> IdleTooLong(session)]
    /\ StoreUnchanged

\* Database.get_event
get_event(event_id) == event_id \in events

\* dashboard.render_dashboard after requires_auth: the event the sections
\* are drawn for, AllEvents for the view of all events.
DashboardEvent(s, selected_view) ==
    IF s.role = "viewer" /\ s.assigned_event_id # NoId /\ get_event(s.assigned_event_id)
    THEN s.assigned_event_id
    ELSE selected_view

\* A request of the dashboard page, with the entry chosen in "Select View".
render_dashboard(selected_view) ==
    LET s == init_auth(session) IN
    /\ "Dashboard" \in nav_options(session)
    /\ selected_view \in events \cup {AllEvents}
    /\ IF ~requires_auth(s, "view_dashboard")
       THEN display_login_form("render_dashboard")
       ELSE /\ session' = s
            /\ users' = create_initial_admin(users)
            /\ last' = [op |-> "render_dashboard",
                        view |-> IF events = {} THEN "no_events" ELSE "sections",
                        id |-> IF events = {} THEN NoId ELSE DashboardEvent(s, selected_view),
                        expired |-> FALSE]
            /\ StoreUnchanged

\* streamlit_app.render_user_management, "Create User": a viewer is offered
\* the events of the store and "All Events".
render_user_management(new_user, assigned_event_id) ==
    LET s == init_auth(session) IN
    /\ session.authenticated
    /\ "User Management" \in nav_options(session)
    /\ assigned_event_id \in (IF new_user.role = "viewer" THEN events \cup {NoId} ELSE {NoId})
    /\ IF ~s.authenticated
       THEN display_login_form("render_user_management")
       ELSE /\ session' = s
            /\ IF new_user.username \in DOMAIN users
               THEN /\ users' = users
                    /\ last' = [op |-> "render_user_management", view |-> "page", id |-> NoId, expired |-> FALSE]
               ELSE /\ users' = [u \in DOMAIN users \cup {new_user.username} |->
                                    IF u \in DOMAIN users THEN users[u]
                                    ELSE [id |-> Cardinality(DOMAIN users) + 1,
                                          role |-> new_user.role,
                                          assigned_event_id |-> assigned_event_id]]
                    /\ last' = [op |-> "render_user_management", view |-> "page", id |-> Cardinality(DOMAIN users) + 1, expired |-> FALSE]
            /\ StoreUnchanged

\* data_manager.render_data_manager is open to a session that reaches it
\* through the navigation and passes requires_auth('upload_data').
DataManagerOpen(s) == "Data Management" \in nav_options(s) /\ requires_auth(s, "upload_data")

\* data_manager.render_event_management, "Create Event" with a name.
create_event_form ==
    LET s == init_auth(session) IN
    /\ DataManagerOpen(session)
    /\ next_event_id <= MaxEvents
    /\ IF ~s.authenticated
       THEN display_login_form("create_event_form")
       ELSE /\ session' = s
            /\ users' = create_initial_admin(users)
            /\ events' = events \cup {next_event_id}
            /\ next_event_id' = next_event_id + 1
            /\ last' = [op |-> "create_event_form", view |-> "page", id |-> next_event_id, expired |-> FALSE]
            /\ UNCHANGED <<participants, data_history, next_participant_id, next_history_id, now, uncommitted, calls, upload>>

\* data_manager.render_event_management, "Delete Event" on the selected
\* event: the first click keeps the id and draws "Yes, Delete".
click_delete_event(selected_event_id) ==
    LET s == init_auth(session) IN
    /\ DataManagerOpen(session)
    /\ selected_event_id \in events
    /\ IF ~s.authenticated
       THEN display_login_form("click_delete_event")
       ELSE /\ session' = IF s.confirm_delete_event = NoId
                          THEN [s EXCEPT !.confirm_delete_event = selected_event_id]
                          ELSE s
            /\ users' = create_initial_admin(users)
            /\ last' = [op |-> "click_delete_event",
                        view |-> IF s.confirm_delete_event = NoId THEN "confirm" ELSE "page",
                        id |-> selected_event_id, expired |-> FALSE]
            /\ StoreUnchanged

\* data_manager.render_event_management, "Yes, Delete", a button of the page
\* that the first click drew: db.delete_event on the kept id, which then
\* leaves the session.
click_confirm_delete_yes ==
    LET s == init_auth(session)
        event_id == session.confirm_delete_event
    IN
    /\ last.op = "click_delete_event" /\ last.view = "confirm"
    /\ DataManagerOpen(session)
    /\ IF ~s.authenticated
       THEN display_login_form("click_confirm_delete_yes")
       ELSE /\ events # {}
            /\ session' = [s EXCEPT !.confirm_delete_event = NoId]
            /\ users' = create_initial_admin(users)
            /\ participants' = [p \in DOMAIN participants \ ParticipantsOfEvent(event_id) |->
                                    participants[p]]
            /\ events' = events \ {event_id}
            /\ last' = [op |-> "click_confirm_delete_yes", view |-> "page", id |-> event_id, expired |-> FALSE]
            /\ UNCHANGED <<data_history, next_event_id, next_participant_id, next_history_id, now, uncommitted, calls, upload>>

\* The steps of the clock between requests: twenty minutes, a day.
IdleSteps == {20 * SecondsPerMinute, HoursPerDay * SecondsPerHour}

\* One browser session over the store: the accounts of three roles, the
\* pages that create and delete events, the dashboard, the clock, and the
\* registrations that come in meanwhile.
NextSession ==
    \/ \E seconds \in IdleSteps : AdvanceClock(seconds)
    \/ \E username \in Usernames : login(username)
    \/ click_logout
    \/ \E selected_view \in EventIds \cup {AllEvents} : render_dashboard(selected_view)
    \/ \E new_user \in NewUsers, assigned_event_id \in EventIds \cup {NoId} :
          render_user_management(new_user, assigned_event_id)
    \/ create_event_form
    \/ \E selected_event_id \in EventIds : click_delete_event(selected_event_id)
    \/ click_confirm_delete_yes
    \/ \E event_id \in EventIds :
          /\ add_participant("a", "", "", "", "", event_id)
          /\ ParticipantRoom(MaxParticipants)

SpecSession == Init /\ [][NextSession]_vars

----------------------------------------------------------------------------
(* Properties *)

\* The audit rows a step appended.
Appended == SubSeq(data_history', Len(data_history) + 1, Len(data_history'))

\* C1: in every reachable state every participant has checked_in true if and
\* only if its check_in_time is non-null.
C1_CheckedInIffCheckInTime ==
    \A p \in DOMAIN participants :
        (participants[p].checked_in # 0) <=> (participants[p].check_in_time # NullTime)

\* update_participant_full has left a participant checked in, with its stamp.
C1_Witness ==
    /\ last.op = "update_participant_full" /\ last.ok
    /\ participants[last.id].checked_in = 1
    /\ participants[last.id].check_in_time # NullTime

\* C2: check_in_participant on a participant that is already checked in
\* returns False and changes neither the participant rows nor the audit log.
C2_CheckInOfCheckedInIsNoOp ==
    [][\A p \in DOMAIN participants :
          (/\ last'.op = "check_in_participant"
           /\ last'.id = p
           /\ participants[p].checked_in # 0)
          => (/\ last'.ok = FALSE
              /\ participants' = participants
              /\ data_history' = data_history)]_vars

\* A check-in was refused for a participant that is checked in, with the one
\* status-flip row of its first check-in in the log.
C2_Witness ==
    /\ last.op = "check_in_participant" /\ ~last.ok
    /\ last.id \in DOMAIN participants
    /\ participants[last.id].checked_in = 1
    /\ Cardinality({i \in DOMAIN data_history :
            /\ data_history[i].participant_id = last.id
            /\ data_history[i].field_name = "checked_in"}) = 1

\* C3: after delete_event of an existing event no participant of the event is
\* left, no audit row references a participant the event had, and the event
\* is gone.
C3_DeleteEventCascades ==
    [][\A e \in events :
          (last'.op = "delete_event" /\ last'.id = e)
          => LET gone == {p \in DOMAIN participants : participants[p].event_id = e}
             IN /\ \A p \in DOMAIN participants' : participants'[p].event_id # e
                /\ gone \cap DOMAIN participants' = {}
                /\ \A i \in DOMAIN data_history' :
                      data_history'[i].participant_id \notin gone
                /\ e \notin events']_vars

\* C4: in every reachable state every audit row's participant_id is the id of
\* an existing participant.
C4_AuditRowsReferenceParticipants ==
    \A i \in DOMAIN data_history :
        data_history[i].participant_id \in DOMAIN participants

\* C5: in every reachable state every participant's event_id is the id of an
\* existing event.
C5_ParticipantsReferenceEvents ==
    \A p \in DOMAIN participants : participants[p].event_id \in events

\* C6: update_participant on an existing participant appends exactly one audit
\* row for each of the five fields whose new value differs from the stored
\* one, carrying the field, the old and the new value and the actor, none for
\* an unchanged field, and stores the supplied values.
C6_UpdateLogsEachChangedField ==
    [][\A participant_id \in 1..MaxParticipants, name \in Names,
          email, phone, college, group_name \in Optionals, user_id \in UserIds :
          (/\ last'.op = "update_participant"
           /\ participant_id \in DOMAIN participants
           /\ update_participant(participant_id, name, email, phone, college,
                                 group_name, user_id))
          => LET old == participants[participant_id]
                 new == [name |-> name, email |-> email, phone |-> phone,
                         college |-> college, group_name |-> group_name]
                 fields == {"name", "email", "phone", "college", "group_name"}
             IN /\ last'.ok
                /\ SubSeq(data_history', 1, Len(data_history)) = data_history
                /\ \A f \in fields :
                      Cardinality({i \in DOMAIN Appended :
                                      Appended[i].field_name = f})
                         = IF old[f] = new[f] THEN 0 ELSE 1
                /\ \A i \in DOMAIN Appended :
                      /\ Appended[i].field_name \in fields
                      /\ Appended[i].participant_id = participant_id
                      /\ Appended[i].old_value = old[Appended[i].field_name]
                      /\ Appended[i].new_value = new[Appended[i].field_name]
                      /\ Appended[i].modified_by = user_id
                /\ \A f \in fields : participants'[participant_id][f] = new[f]]_vars

\* An update has gone through and the log holds one row for each of the five
\* fields of the participant.
C6_Witness ==
    /\ last.op = "update_participant" /\ last.ok
    /\ Len(data_history) = 5
    /\ {data_history[i].field_name : i \in DOMAIN data_history}
          = {"name", "email", "phone", "college", "group_name"}
    /\ \A i \in DOMAIN data_history : data_history[i].participant_id = last.id

\* C7: update_participant_full with the stored values, in whatever Python
\* representation (checked_in as bool or int, event_id as int or str), appends
\* no audit row.
C7_SameValuesAppendNoAuditRow ==
    [][\A participant_id \in 1..MaxParticipants, event_id \in EventIdArgs,
          checked_in \in CheckedInArgs, user_id \in UserIds :
          (/\ last'.op = "update_participant_full"
           /\ participant_id \in DOMAIN participants
           /\ update_participant_full(participant_id, "a", "", "", "", "",
                                      event_id, checked_in, user_id)
           /\ LET old == participants[participant_id]
              IN /\ old.name = "a" /\ old.email = "" /\ old.phone = ""
                 /\ old.college = "" /\ old.group_name = ""
                 /\ old.event_id = SqlInteger(event_id)
                 /\ old.checked_in = SqlInteger(checked_in))
          => data_history' = data_history]_vars

\* C8: update_participant_full stamps check_in_time with the current time when
\* the flag goes from false to true, clears it when the flag goes from true to
\* false, and leaves it when the flag does not change.
C8_CheckInTimeFollowsTransition ==
    [][\A participant_id \in 1..MaxParticipants, event_id \in EventIdArgs,
          checked_in \in CheckedInArgs, user_id \in UserIds :
          (/\ last'.op = "update_participant_full"
           /\ participant_id \in DOMAIN participants
           /\ update_participant_full(participant_id, "a", "", "", "", "",
                                      event_id, checked_in, user_id))
          => LET old == participants[participant_id]
                 new == participants'[participant_id]
                 supplied == checked_in \in {PyBool(TRUE), PyInt(1)}
             IN /\ (old.checked_in = 0 /\ supplied) => new.check_in_time = now
                /\ (old.checked_in # 0 /\ ~supplied) => new.check_in_time = NullTime
                /\ ((old.checked_in # 0) <=> supplied)
                      => new.check_in_time = old.check_in_time]_vars

\* update_participant_full has run on a checked-in participant at a later
\* second than its check-in, and the participant holds the earlier stamp.
C8_Witness ==
    /\ last.op = "update_participant_full" /\ last.ok
    /\ participants[last.id].checked_in = 1
    /\ participants[last.id].check_in_time # NullTime
    /\ participants[last.id].check_in_time < now

\* C9: add_participant stores a row only when the name is non-empty and
\* event_id is the id of an existing event.
C9_CreateValidates ==
    [][(last'.op = "add_participant" /\ last'.id \in DOMAIN participants')
          => (/\ participants'[last'.id].name # ""
              /\ participants'[last'.id].event_id \in events)]_vars

\* C10: bulk_add_participants persists no row of a batch one of whose inserts
\* fails, and reports the failure; it persists every row of a batch none of
\* whose inserts fails.
C10_BulkIsAllOrNothing ==
    [][\A batch \in Batches :
          (last'.op = "bulk_add_participants" /\ bulk_add_participants(batch))
          => IF \E i \in DOMAIN batch : InsertFails(batch[i])
             THEN /\ ~last'.ok
                  /\ participants' = participants
             ELSE /\ last'.ok
                  /\ DOMAIN participants' = DOMAIN participants \cup
                        {next_participant_id + i - 1 : i \in DOMAIN batch}
                  /\ \A p \in DOMAIN participants :
                        participants'[p] = participants[p]
                  /\ \A i \in DOMAIN batch :
                        LET row == participants'[next_participant_id + i - 1]
                        IN /\ row.name = batch[i].name
                           /\ row.email = batch[i].email
                           /\ row.phone = batch[i].phone
                           /\ row.college = batch[i].college
                           /\ row.group_name = batch[i].group_name
                           /\ row.event_id = batch[i].event_id]_vars

\* A batch failed on its second row, after its first row was inserted, next
\* to a participant that an earlier call stored.
C10_Witness ==
    /\ last.op = "bulk_add_participants" /\ ~last.ok
    /\ last.inserted = 1
    /\ DOMAIN participants = {1}

\* C11: the audit rows written by an update_participant, update_participant_full,
\* check_in_participant or undo_check_in call that failed are never committed:
\* no step, a later call's commit on the same connection included, puts a row
\* of a failed call into the committed audit log.
C11_FailedWritesNeverCommitted ==
    [][\A i \in DOMAIN uncommitted :
          \A j \in DOMAIN data_history' : data_history'[j] # uncommitted[i]]_vars

\* C12: when all callers have run check_in_participant, each on its own
\* connection, on the same participant that existed and was not checked in,
\* in whatever interleaving of their SELECTs and their writes, exactly one
\* call has returned True and the log holds exactly one checked_in '0' -> '1'
\* row of the participant.
C12_ConcurrentCheckInsSerialized ==
    \A participant_id \in 1..MaxParticipants :
        (\A caller \in Callers :
            /\ calls[caller].pc = "returned"
            /\ calls[caller].participant_id = participant_id
            /\ calls[caller].current_status # NoRow)
        => /\ Cardinality({caller \in Callers : calls[caller].ok}) = 1
           /\ Cardinality({i \in DOMAIN data_history :
                  /\ data_history[i].participant_id = participant_id
                  /\ data_history[i].field_name = "checked_in"
                  /\ data_history[i].old_value = "0"
                  /\ data_history[i].new_value = "1"}) = 1

\* C13: a check_in_participant call that returns True sets checked_in, stamps
\* check_in_time with the current time, and appends exactly the row
\* ('checked_in', '0', '1') followed, if and only if a photo was passed, by
\* exactly one 'id_card_photo' row whose new value is the marker
\* 'Photo captured' and whose old value is null; no row holds the photo, and
\* nothing else is appended or changed.
C13_CheckInStampsAndLogs ==
    [][\A participant_id \in 1..MaxParticipants, user_id \in UserIds,
          id_card_photo \in Photos :
          (/\ last'.op = "check_in_participant"
           /\ last'.ok
           /\ check_in_participant(participant_id, user_id, id_card_photo))
          => LET supplied == id_card_photo # NULL /\ id_card_photo # ""
                 flip == [participant_id |-> participant_id,
                          field_name |-> "checked_in", old_value |-> "0",
                          new_value |-> "1", modified_by |-> user_id]
                 marker == [participant_id |-> participant_id,
                            field_name |-> "id_card_photo", old_value |-> NULL,
                            new_value |-> "Photo captured", modified_by |-> user_id]
                 logged == [i \in DOMAIN Appended |->
                              [f \in DOMAIN flip |-> Appended[i][f]]]
             IN /\ participants'[participant_id].checked_in = 1
                /\ participants'[participant_id].check_in_time = now
                /\ now # NullTime
                /\ SubSeq(data_history', 1, Len(data_history)) = data_history
                /\ logged = IF supplied THEN <<flip, marker>> ELSE <<flip>>
                /\ supplied => \A i \in DOMAIN Appended :
                                  /\ Appended[i].old_value # id_card_photo
                                  /\ Appended[i].new_value # id_card_photo
                /\ \A p \in DOMAIN participants \ {participant_id} :
                      participants'[p] = participants[p]
                /\ DOMAIN participants' = DOMAIN participants
                /\ events' = events]_vars

\* A check-in with a photo has gone through: the photo is stored in the row
\* and the log holds the status flip and the marker.
C13_Witness ==
    /\ last.op = "check_in_participant" /\ last.ok
    /\ participants[last.id].checked_in = 1
    /\ participants[last.id].id_card_photo = "jpg"
    /\ Len(data_history) = 2
    /\ data_history[2].field_name = "id_card_photo"

C15_DeleteRemovesRowAndItsHistory ==
    [][\A participant_id \in 1..TwoParticipants :
          (last'.op = "delete_participant" /\ last'.id = participant_id)
          => /\ participant_id \notin DOMAIN participants'
             /\ \A i \in DOMAIN data_history' :
                   data_history'[i].participant_id # participant_id
             /\ DOMAIN participants' = DOMAIN participants \ {participant_id}
             /\ \A p \in DOMAIN participants' : participants'[p] = participants[p]
             /\ data_history' = SelectSeq(data_history,
                    LAMBDA h : h.participant_id # participant_id)
             /\ events' = events]_vars

\* Participant 1 has been deleted with its audit row, and participant 2 and its
\* audit row are still there.
C15_Witness ==
    /\ last.op = "delete_participant" /\ last.ok /\ last.id = 1
    /\ DOMAIN participants = {2}
    /\ participants[2].checked_in = 1
    /\ next_history_id = 3
    /\ Len(data_history) = 1
    /\ data_history[1].participant_id = 2

\* C16: the audit log is append-only: every audit row present before a step is
\* present after it with the same id, participant, field, old value, new
\* value and actor, unless the step deleted the participant the row
\* references.
C16_AuditLogAppendOnly ==
    [][\A i \in DOMAIN data_history :
          ~(/\ data_history[i].participant_id \in DOMAIN participants
            /\ data_history[i].participant_id \notin DOMAIN participants')
          => \E j \in DOMAIN data_history' : data_history'[j] = data_history[i]]_vars

\* C17: update_participant, update_participant_full and check_in_participant
\* called with an id for which no participant exists return False and leave
\* the participants and the audit log unchanged.
C17_MissingIdIsRefused ==
    [][(/\ last'.op \in {"update_participant", "update_participant_full",
                         "check_in_participant"}
        /\ last'.id \notin DOMAIN participants)
       => (/\ last'.ok = FALSE
           /\ participants' = participants
           /\ data_history' = data_history)]_vars

\* update_participant_full was refused for the id of a participant that has
\* been deleted, with audit rows in the log.
C17_Witness ==
    /\ last.op = "update_participant_full" /\ ~last.ok
    /\ last.id \notin DOMAIN participants
    /\ next_participant_id > last.id
    /\ Len(data_history) > 0

\* The rows of a validated file that validation has to refuse: no name, no
\* event id, or an event id that is none of the known ids.
BadRows(df, known) ==
    {i \in DOMAIN df.rows :
        \/ df.rows[i].Name \in {NULL, "", " "}
        \/ df.rows[i].EventID = PyNaN
        \/ df.rows[i].EventID \notin {PyInt(e) : e \in known}}

\* C18: validate_uploaded_data returns is_valid = True exactly when the
\* required columns are present and no row has a missing name, a missing
\* event id or an event id that is none of the known ids; every such row has
\* an entry in the error list; a malformed email or phone adds warnings only
\* and never makes is_valid False.
C18_ValidateFlagsExactlyBadRows ==
    upload.stage # "none" =>
        LET df == upload.file
            result == upload.result
            required == {"Name", "Event ID"} \subseteq df.columns
            bad == BadRows(df, upload.known)
        IN /\ ~result.raised
           /\ result.is_valid <=> (required /\ bad = {})
           /\ required =>
                 /\ \A i \in bad : \E e \in DOMAIN result.errors :
                       result.errors[e].row = i + 1
                 /\ \A e \in DOMAIN result.errors :
                       /\ result.errors[e].field \in {"Name", "Event ID"}
                       /\ result.errors[e].row - 1 \in bad
                 /\ \A w \in DOMAIN result.warnings :
                       result.warnings[w].field \in {"Email", "Phone"}

\* C19: in the import flow a batch with a row whose name is missing or whose
\* event id is not the id of an existing event is rejected as a whole: the
\* confirmation of such a batch persists none of its rows.
C19_ImportRejectsInvalidBatch ==
    [][(/\ upload.stage = "preview"
        /\ last'.op \in {"bulk_add_participants", "confirm_upload"}
        /\ BadRows(upload.df, events) # {})
       => participants' = participants]_vars

\* C20: the totals view of an event or of all events shows total = the number
\* of participants in scope and checked_in = the number of those that are
\* checked in, 0 and not a missing value when the scope is empty, and a
\* check-in rate of 0 when total is 0.
C20_TotalsCountScope ==
    last.op = "render_overview_section" =>
        LET scope == IF last.id = AllEvents THEN DOMAIN participants
                     ELSE {p \in DOMAIN participants :
                              participants[p].event_id = last.id}
        IN /\ last.stats.total = Cardinality(scope)
           /\ last.stats.checked_in =
                 Cardinality({p \in scope : participants[p].checked_in # 0})
           /\ last.stats.total = 0 => last.check_in_percent = 0

\* C21: the per-event breakdown has one row for every existing event, and the
\* row of an event without participants has a participant count of 0 and a
\* checked-in count of 0.
C21_BreakdownHasEveryEvent ==
    last.op = "render_attendance_section" =>
        \A e \in events :
            /\ Cardinality({r \in last.stats : r.id = e}) = 1
            /\ (\A p \in DOMAIN participants : participants[p].event_id # e)
               => \A r \in last.stats :
                     r.id = e => r.total_participants = 0 /\ r.checked_in = 0

\* C22: the hourly check-in timeline of a date has exactly 24 buckets, hours
\* 0 to 23, and the bucket of hour h holds the number of checked-in
\* participants in scope whose check_in_time is on that date in hour h: 0 for
\* an hour without check-ins, also when no check-in at all is on that date.
C22_TimelineHas24Buckets ==
    last.op = "render_check_in_timeline" =>
        LET scope == IF last.id = AllEvents THEN DOMAIN participants
                     ELSE {p \in DOMAIN participants :
                              participants[p].event_id = last.id}
        IN /\ Len(last.data) = 24
           /\ \A i \in 1..24 :
                 /\ last.data[i].hour = i - 1
                 /\ last.data[i].count =
                       Cardinality({p \in scope :
                          /\ participants[p].checked_in # 0
                          /\ participants[p].check_in_time \div 86400 = last.date
                          /\ (participants[p].check_in_time \div 3600) % 24 = i - 1})

\* C23: an event is deleted only by a session whose permissions include
\* manage_events; a session of the data manager role (upload_data and
\* view_dashboard) never deletes an event and its participants.
C23_DeleteNeedsManageEvents ==
    [][(\E event_id \in events : event_id \notin events')
          => "manage_events" \in session.permissions]_vars

\* The requests of a browser session, by the name the model gives them.
RequestOps == {"login", "logout", "render_dashboard", "render_user_management", "create_event_form", "click_delete_event", "click_confirm_delete_yes"}

\* C29: a request that reaches an authenticated session more than
\* SESSION_EXPIRY minutes after its last activity, a day or more included,
\* logs the session out: authenticated false, user id, role and permissions
\* cleared.
C29_IdleSessionIsLoggedOut ==
    [][(/\ last'.op \in RequestOps
        /\ session.authenticated
        /\ TotalSeconds(now, session.auth_timestamp) > SESSION_EXPIRY * SecondsPerMinute)
          => /\ ~session'.authenticated
             /\ session'.user_id = NoId
             /\ session'.role = NULL
             /\ session'.permissions = {}]_vars

\* C30: every dashboard a viewer with an assigned event is shown is drawn for
\* that event, never for all events or for another event, whatever events
\* were created or deleted before.
C30_ViewerSeesAssignedEventOnly ==
    (/\ last.op = "render_dashboard"
     /\ last.view = "sections"
     /\ session.role = "viewer"
     /\ session.assigned_event_id # NoId)
       => last.id = session.assigned_event_id

\* C24: undo_check_in with an id that has no participant reports failure and
\* appends no audit row: participants and the audit log are unchanged.
C24_UndoOfMissingIdFails ==
    [][(last'.op = "undo_check_in" /\ ~RowExists(last'.id))
          => /\ ~last'.ok
             /\ data_history' = data_history
             /\ participants' = participants]_vars

\* C25: every audit row of field checked_in that CheckIn, UndoCheckIn or
\* UpdateFull appends for a participant has the participant's flag before the
\* step as its old value and the flag after the step as its new value, and
\* the two differ.
C25_CheckedInRowsAreTransitions ==
    [][\A i \in 1..Len(Appended) :
          (/\ Appended[i].field_name = "checked_in"
           /\ last'.op \in {"check_in_participant", "undo_check_in", "update_participant_full"}
           /\ RowExists(Appended[i].participant_id))
              => /\ Appended[i].participant_id \in DOMAIN participants'
                 /\ Appended[i].old_value = DecStr(participants[Appended[i].participant_id].checked_in)
                 /\ Appended[i].new_value = DecStr(participants'[Appended[i].participant_id].checked_in)
                 /\ Appended[i].old_value # Appended[i].new_value]_vars

\* C28: in every reachable state a participant with a stored photo
\* (id_card_photo not NULL) is checked in.
C28_PhotoOnlyWhileCheckedIn ==
    \A p \in DOMAIN participants :
        participants[p].id_card_photo # NULL => participants[p].checked_in = 1

\* The status-flip rows among the audit rows a step appended.
AppendedFlips == SelectSeq(Appended, LAMBDA h : h.field_name = "checked_in")

\* C26: check_in_participant succeeds exactly when the participant exists and
\* is not checked in at the call; a check-in that directly follows an undo of
\* the same participant succeeds again; and a check-in that succeeds stamps
\* check_in_time with the current time and appends exactly one status-flip
\* row, '0' to '1', of that participant.
C26_CheckInAgainAfterUndo ==
    [][last'.op = "check_in_participant"
          => /\ last'.ok <=> (/\ RowExists(last'.id)
                              /\ participants[last'.id].checked_in = 0)
             /\ (last.op = "undo_check_in" /\ last.id = last'.id /\ RowExists(last'.id))
                   => last'.ok
             /\ last'.ok
                   => /\ participants'[last'.id].checked_in = 1
                      /\ participants'[last'.id].check_in_time = now
                      /\ now # NullTime
                      /\ Len(AppendedFlips) = 1
                      /\ AppendedFlips[1].participant_id = last'.id
                      /\ AppendedFlips[1].old_value = "0"
                      /\ AppendedFlips[1].new_value = "1"]_vars

\* A second check-in of a participant, after an undo, with a later stamp:
\* the log holds the flips '0' to '1', '1' to '0', '0' to '1'.
C26_Witness ==
    /\ last.op = "check_in_participant"
    /\ last.ok
    /\ participants[last.id].check_in_time = now
    /\ now > 1
    /\ LET flips == SelectSeq(data_history, LAMBDA h : h.field_name = "checked_in" /\ h.participant_id = last.id)
       IN /\ Len(flips) = 3
          /\ flips[1].new_value = "1"
          /\ flips[2].new_value = "0"
          /\ flips[3].new_value = "1"

\* The columns of a participant that update_participant is not given.
KeptColumns == {"event_id", "registered_at", "checked_in", "check_in_time", "id_card_photo"}

\* C27: update_participant leaves the target's event_id, checked_in,
\* check_in_time, registration timestamp and photo as they were, leaves every
\* other participant as it was, and adds or removes no participant.
C27_UpdateKeepsTheOtherColumns ==
    [][last'.op = "update_participant"
          => /\ DOMAIN participants' = DOMAIN participants
             /\ \A p \in DOMAIN participants :
                   /\ p # last'.id => participants'[p] = participants[p]
                   /\ \A column \in KeptColumns :
                         participants'[p][column] = participants[p][column]]_vars

\* An update has changed a field of a participant that is checked in with a
\* photo, next to a second participant.
C27_Witness ==
    /\ last.op = "update_participant" /\ last.ok
    /\ Cardinality(DOMAIN participants) = 2
    /\ participants[last.id].checked_in = 1
    /\ participants[last.id].check_in_time # NullTime
    /\ participants[last.id].id_card_photo = "jpg"
    /\ \E i \in DOMAIN data_history :
          /\ data_history[i].participant_id = last.id
          /\ data_history[i].field_name \in {"name", "email"}

====
